---- MODULE Spec2Model ----
(***************************************************************************)
(* InventoryService (services/Inventory/Inventory.ts): the compute-item-   *)
(* cost job scheduler, the inventory transactions recorder and the lot     *)
(* number sequencer, as a state machine.  A process is one asynchronous    *)
(* call chain of the Node.js event loop; one action is the code between    *)
(* two awaits together with the effect of the awaited storage/queue call.  *)
(***************************************************************************)
EXTENDS Integers, Sequences, FiniteSets, TLC

\* ------------------------------------------------------------- bounds
MaxJobs == 3          \* pending job documents plus scheduling calls in progress
MaxLot == 3           \* lot number increments made over all tenants
MaxRows == 3          \* stored inventory transactions plus those being recorded
MaxEntries == 3       \* item entries handed to transformItemEntriesToInventory

\* ------------------------------------------------------------- domains
Procs == {1, 2}
SeqProcs == {1}       \* the caller of the calls made one at a time
Tenants == {1, 2}
Items == {1, 2}
\* The items scheduled for: items 1 and 2 of tenant 1, item 1 of tenant 2.
Pairs == {<<1, 1>>, <<1, 2>>, <<2, 1>>}
Dates == {1, 2, 3}

VARIABLES
  jobs,      \* agenda collection, the documents with nextRunAt # null: job data -> number of documents
  pc,        \* per process: the await the call is suspended at
  frame,     \* per process: arguments and locals of the running call
  emitted,   \* notifications dispatched by the step just taken
  lastSched, \* the last returned scheduleComputeItemCost call, forgotten when a job runs
  overlapped, \* history: the items that two scheduleComputeItemCost calls were in progress for together
  pre,       \* history, per process: the item's pending jobs, or the document's rows, when its call started
  settings,  \* per tenant: the 'lot_number_increment' setting as the settings store holds it
  store,     \* per tenant: the inventory transactions table, row -> number of rows
  ret,       \* per process: what the call returning in the step just taken returned
  issued,    \* history, per tenant: the numbers incrementNextLotNumber has returned
  stamped,   \* history, per tenant: the lot numbers successful recordings from entries stamped
  lastRec,   \* history: the last returned recording call
  racing,    \* history: the tenants two incrementNextLotNumber calls were in progress for together
  failed,    \* history, per tenant: the lot numbers obtained by recordings from entries that threw
  invoked,   \* the cost method computers invoked by the step just taken
  lotCosts   \* the number of rows of the InventoryCostLotTracker table

schedVars == <<jobs, lastSched, overlapped, pre>>
recVars == <<settings, store, ret, issued, stamped, lastRec, racing, failed>>
costVars == <<invoked, lotCosts>>
vars == <<jobs, pc, frame, emitted, lastSched, overlapped, pre,
          settings, store, ret, issued, stamped, lastRec, racing, failed, invoked, lotCosts>>

NoFrame == [op |-> "none"]
NoCall == [op |-> "none"]

\* The data of a pending 'compute-item-cost' job document.  Every filter of the
\* service carries name: 'compute-item-cost' and nextRunAt: { $ne: null }, so the
\* collection is kept as the documents those two conditions select.
JobKinds ==
  {[tenantId |-> pair[1], itemId |-> pair[2], startingDate |-> d] : pair \in Pairs, d \in Dates}

RECURSIVE SumOver(_, _)
SumOver(f, S) ==
  LET T == {y \in S : f[y] # 0}
  IN IF T = {} THEN 0
     ELSE LET x == CHOOSE y \in T : TRUE IN f[x] + SumOver(f, T \ {x})

TotalJobs == SumOver(jobs, JobKinds)

\* Mutant: the cancel filter also selects the requested date ($gte for $gt).
CancelFilter_OrEqual(j, tenantId, itemId, startingDate) ==
  /\ j.tenantId = tenantId
  /\ j.itemId = itemId
  /\ j.startingDate >= startingDate

\* Mutant: the cancel filter leaves out the item ('data.itemId' dropped).
CancelFilter_AnyItem(j, tenantId, itemId, startingDate) ==
  /\ j.tenantId = tenantId
  /\ j.startingDate > startingDate

\* Mutant: the cancel filter selects the lower starting dates ($lt for $gt).
CancelFilter_Lower(j, tenantId, itemId, startingDate) ==
  /\ j.tenantId = tenantId
  /\ j.itemId = itemId
  /\ j.startingDate < startingDate

\* The filter of agenda.cancel: pending jobs of the item with an upper starting date.
CancelFilter(j, tenantId, itemId, startingDate) ==
  /\ j.tenantId = tenantId
  /\ j.itemId = itemId
  /\ j.startingDate > startingDate

\* Mutant: the query filter is strict ($lt for $lte).
DependsFilter_Strict(j, tenantId, itemId, startingDate) ==
  /\ j.tenantId = tenantId
  /\ j.itemId = itemId
  /\ j.startingDate < startingDate

\* The filter of agenda.jobs: pending jobs of the item with a lower or equal starting date.
DependsFilter(j, tenantId, itemId, startingDate) ==
  /\ j.tenantId = tenantId
  /\ j.itemId = itemId
  /\ j.startingDate <= startingDate

\* Mutant: the cancel is skipped.
AgendaCancel_Skipped(js, tenantId, itemId, startingDate) == js

\* agenda.cancel(filter): removes every matching job document.
AgendaCancel(js, tenantId, itemId, startingDate) ==
  [j \in JobKinds |->
     IF CancelFilter(j, tenantId, itemId, startingDate) THEN 0 ELSE js[j]]

\* agenda.jobs(filter).length
DependsJobsLength(js, tenantId, itemId, startingDate) ==
  SumOver(js, {j \in JobKinds : DependsFilter(j, tenantId, itemId, startingDate)})

\* agenda.schedule(when, 'compute-item-cost', data): one more pending job document.
AgendaSchedule(js, tenantId, itemId, startingDate) ==
  LET j == [tenantId |-> tenantId, itemId |-> itemId, startingDate |-> startingDate]
  IN [js EXCEPT ![j] = @ + 1]

JobScheduledEvent_Swapped(tenantId, itemId, startingDate) ==
  [name |-> "onComputeItemCostJobScheduled",
   startingDate |-> startingDate, itemId |-> tenantId, tenantId |-> itemId]

JobScheduledEvent(tenantId, itemId, startingDate) ==
  [name |-> "onComputeItemCostJobScheduled",
   startingDate |-> startingDate, itemId |-> itemId, tenantId |-> tenantId]

PendingJob(tenantId, itemId, startingDate) ==
  [tenantId |-> tenantId, itemId |-> itemId, startingDate |-> startingDate]

\* The pending jobs of one item, by starting date.
PendingOf(js, tenantId, itemId) ==
  [d \in Dates |-> js[PendingJob(tenantId, itemId, d)]]

PendingCount(js, tenantId, itemId) ==
  SumOver(PendingOf(js, tenantId, itemId), Dates)

PendingDates(js, tenantId, itemId) ==
  {d \in Dates : js[PendingJob(tenantId, itemId, d)] > 0}

InFlight == Cardinality({p \in Procs : pc[p] # "idle"})

\* ------------------------------------------------------------- lot number setting

\* A stored 'lot_number_increment' value is kept by its decimal digits, the string
\* parseInt reads; Unset: no setting is stored.
Unset == <<>>

RECURSIVE Digits(_)
\* The decimal digits of a natural number: String(value), which parseInt reads.
Digits(n) == IF n < 10 THEN <<n>> ELSE Append(Digits(n \div 10), n % 10)

RECURSIVE FromDigits(_)
FromDigits(ds) ==
  IF ds = <<>> THEN 0
  ELSE 10 * FromDigits(SubSeq(ds, 1, Len(ds) - 1)) + ds[Len(ds)]

\* parseInt(value, 10) of a stored counter value.
ParseInt10(value) == FromDigits(value)

Truthy_Negated(value) == value # Unset /\ value = <<0>>

\* storedLotNumber && storedLotNumber.value
Truthy(value) == value # Unset /\ value # <<0>>

\* The settings store, tenancy.settings(tenantId): externally stored per-tenant state.
\* settings.find({ key }) on a call's handle gives the value stored for the tenant;
\* a value set on the handle is stored when settings.save() resolves.
SettingsFind(stored, tenantId) == stored[tenantId]
SettingsSave(stored, tenantId, value) == [stored EXCEPT ![tenantId] = Digits(value)]

\* getNextLotNumber: the stored value, 1 when there is none.
GetNextLotNumber(value) == IF Truthy(value) THEN ParseInt10(value) ELSE 1

IncrementedLotNumber_NoIncrement(value) == IF Truthy(value) THEN ParseInt10(value) ELSE 1

\* incrementNextLotNumber, the value it sets and returns: stored + 1, 1 when there is none.
IncrementedLotNumber(value) == IF Truthy(value) THEN ParseInt10(value) + 1 ELSE 1

\* ------------------------------------------------------------- documents and rows

Bill42 == [type |-> "Bill", id |-> 42]
Invoice42 == [type |-> "SaleInvoice", id |-> 42]
Bill43 == [type |-> "Bill", id |-> 43]

\* The documents of each tenant.
DocsOf(t) == IF t = 1 THEN {Bill42, Invoice42, Bill43} ELSE {Bill43}

ItemEntry(id, itemId, quantity, rate, doc) ==
  [id |-> id, itemId |-> itemId, quantity |-> quantity, rate |-> rate,
   referenceType |-> doc.type, referenceId |-> doc.id]

\* itemsEntriesService.getInventoryEntries: the entries of the document that have an
\* inventory item.  Bill 43 has none.
GetInventoryEntries(tenantId, transactionType, transactionId) ==
  LET doc == [type |-> transactionType, id |-> transactionId]
  IN IF tenantId = 1 /\ doc = Bill42
       THEN <<ItemEntry(1, 1, 2, 5, doc), ItemEntry(2, 2, 1, 3, doc)>>
     ELSE IF tenantId = 1 /\ doc = Invoice42
       THEN <<ItemEntry(3, 1, 1, 7, doc)>>
     ELSE <<>>

\* The direction and date a document is recorded with.
DirectionsOf(transactionType) == IF transactionType = "Bill" THEN {"IN"} ELSE {"OUT"}
TxDates == {1}
CallLots == {1}       \* the lot number of the transactions handed to a direct call

TransformItemEntriesToInventory_IdSwapped(itemEntries, direction, date, lotNumber) ==
  [k \in 1 .. Len(itemEntries) |->
     [itemId |-> itemEntries[k].itemId,
      quantity |-> itemEntries[k].quantity,
      rate |-> itemEntries[k].rate,
      lotNumber |-> lotNumber,
      transactionType |-> itemEntries[k].referenceType,
      transactionId |-> itemEntries[k].id,
      direction |-> direction,
      date |-> date,
      entryId |-> itemEntries[k].referenceId]]

\* transformItemEntriesToInventory
TransformItemEntriesToInventory(itemEntries, direction, date, lotNumber) ==
  [k \in 1 .. Len(itemEntries) |->
     [itemId |-> itemEntries[k].itemId,
      quantity |-> itemEntries[k].quantity,
      rate |-> itemEntries[k].rate,
      lotNumber |-> lotNumber,
      transactionType |-> itemEntries[k].referenceType,
      transactionId |-> itemEntries[k].referenceId,
      direction |-> direction,
      date |-> date,
      entryId |-> itemEntries[k].id]]

Range(f) == {f[k] : k \in DOMAIN f}

\* A table or a query result: each row it holds -> the number of such rows.
NoRows == [x \in {} |-> 0]

RowCount(rows) == SumOver(rows, DOMAIN rows)

\* InventoryTransaction.query().insert(row)
InsertRow(rows, row) ==
  [x \in DOMAIN rows \cup {row} |->
     IF x = row THEN (IF x \in DOMAIN rows THEN rows[x] + 1 ELSE 1) ELSE rows[x]]

\* The rows of a sequence of transactions.
RowsOf(txs) == [x \in Range(txs) |-> Cardinality({k \in DOMAIN txs : txs[k] = x})]

FindBy_IdOnly(rows, transactionId, transactionType) ==
  [x \in {y \in DOMAIN rows : y.transactionId = transactionId} |-> rows[x]]

\* inventoryTransactionRepository.find({ transactionId, transactionType })
FindBy(rows, transactionId, transactionType) ==
  [x \in {y \in DOMAIN rows :
            y.transactionId = transactionId /\ y.transactionType = transactionType}
     |-> rows[x]]

DeleteBy_IdOnly(rows, transactionType, transactionId) ==
  [x \in {y \in DOMAIN rows : y.transactionId # transactionId} |-> rows[x]]

\* inventoryTransactionRepository.deleteBy({ transactionType, transactionId })
DeleteBy(rows, transactionType, transactionId) ==
  [x \in {y \in DOMAIN rows :
            ~(y.transactionType = transactionType /\ y.transactionId = transactionId)}
     |-> rows[x]]

CreatedEvent(tenantId, inventoryTransactions) ==
  [name |-> "onInventoryTransactionsCreated",
   tenantId |-> tenantId, inventoryTransactions |-> inventoryTransactions]

DeletedEvent(tenantId, oldInventoryTransactions, transactionId, transactionType) ==
  [name |-> "onInventoryTransactionsDeleted",
   tenantId |-> tenantId, oldInventoryTransactions |-> oldInventoryTransactions,
   transactionId |-> transactionId, transactionType |-> transactionType]

NoRet == [status |-> "none"]
NoRec == [op |-> "none"]

\* Rows stored for all tenants, and rows the calls in progress may still insert.
StoredRows == SumOver([t \in Tenants |-> RowCount(store[t])], Tenants)
RowsToCome ==
  SumOver([p \in Procs |->
             IF pc[p] = "rec_entries"
               THEN Len(GetInventoryEntries(frame[p].tenantId, frame[p].transactionType,
                                            frame[p].transactionId))
             ELSE IF pc[p] \in {"rec_tasks", "rec_orphans"}
               THEN Cardinality({k \in DOMAIN frame[p].task :
                                   frame[p].task[k] \in {"find", "delete", "insert"}})
             ELSE 0], Procs)

\* Calls in progress that end by incrementing a lot number.
IncrementsToCome ==
  Cardinality({p \in Procs :
     /\ pc[p] \in {"rec_entries", "rec_tasks", "incr_set", "incr_save"}
     /\ frame[p].op \in {"recordFromEntries", "incrementNextLotNumber"}})

Init ==
  /\ jobs = [j \in JobKinds |-> 0]
  /\ pc = [p \in Procs |-> "idle"]
  /\ frame = [p \in Procs |-> NoFrame]
  /\ emitted = <<>>
  /\ lastSched = NoCall
  /\ overlapped = {}
  /\ pre = [p \in Procs |-> <<>>]
  /\ settings = [t \in Tenants |-> Unset]
  /\ store = [t \in Tenants |-> NoRows]
  /\ ret = [p \in Procs |-> NoRet]
  /\ issued = [t \in Tenants |-> {}]
  /\ stamped = [t \in Tenants |-> {}]
  /\ lastRec = NoRec
  /\ racing = {}
  /\ failed = [t \in Tenants |-> {}]
  /\ invoked = <<>>
  /\ lotCosts = 0

\* scheduleComputeItemCost, entry to the first await: agenda.cancel.
SchedCancel(p) ==
  /\ pc[p] = "idle"
  /\ TotalJobs + InFlight < MaxJobs
  /\ \E tenantId \in Tenants, itemId \in Items, startingDate \in Dates :
       /\ <<tenantId, itemId>> \in Pairs
       /\ jobs' = AgendaCancel(jobs, tenantId, itemId, startingDate)
       /\ frame' = [frame EXCEPT ![p] =
            [op |-> "schedule", tenantId |-> tenantId, itemId |-> itemId,
             startingDate |-> startingDate, enqueued |-> FALSE]]
  /\ pc' = [pc EXCEPT ![p] = "sched_query"]
  /\ emitted' = <<>>

\* agenda.jobs and the test of dependsJobs.length; returns when a job covers the request.
SchedQuery(p) ==
  /\ pc[p] = "sched_query"
  /\ LET f == frame[p]
         n == DependsJobsLength(jobs, f.tenantId, f.itemId, f.startingDate)
     IN IF n = 0
        THEN /\ pc' = [pc EXCEPT ![p] = "sched_enqueue"]
             /\ UNCHANGED frame
        ELSE /\ pc' = [pc EXCEPT ![p] = "idle"]
             /\ frame' = [frame EXCEPT ![p] = NoFrame]
  /\ emitted' = <<>>
  /\ UNCHANGED jobs

\* agenda.schedule
SchedEnqueue(p) ==
  /\ pc[p] = "sched_enqueue"
  /\ LET f == frame[p]
     IN jobs' = AgendaSchedule(jobs, f.tenantId, f.itemId, f.startingDate)
  /\ frame' = [frame EXCEPT ![p].enqueued = TRUE]
  /\ pc' = [pc EXCEPT ![p] = "sched_dispatch"]
  /\ emitted' = <<>>

\* eventDispatcher.dispatch(onComputeItemCostJobScheduled), then the call returns.
SchedDispatch(p) ==
  /\ pc[p] = "sched_dispatch"
  /\ LET f == frame[p]
     IN emitted' = <<JobScheduledEvent(f.tenantId, f.itemId, f.startingDate)>>
  /\ pc' = [pc EXCEPT ![p] = "idle"]
  /\ frame' = [frame EXCEPT ![p] = NoFrame]
  /\ UNCHANGED jobs

\* The job runtime runs a pending job: its nextRunAt becomes null, and no filter of
\* the service selects it any more.
JobRun ==
  \E j \in JobKinds :
      /\ jobs[j] > 0
    /\ jobs' = [jobs EXCEPT ![j] = @ - 1]
    /\ emitted' = <<>>
    /\ UNCHANGED <<pc, frame>>

AllIdle == \A p \in Procs : pc[p] = "idle"

SchedLabels == {"sched_query", "sched_enqueue", "sched_dispatch"}

\* The step returns process p's scheduleComputeItemCost call.
SchedReturns(p) == pc[p] \in SchedLabels /\ pc'[p] = "idle"

\* History: the call that returned last, with the item's pending jobs as it found
\* them; a job run forgets it.
TrackLastSched ==
  lastSched' =
    IF \E p \in Procs : SchedReturns(p)
    THEN LET f == frame[CHOOSE p \in Procs : SchedReturns(p)]
             q == CHOOSE p \in Procs : SchedReturns(p)
         IN [op |-> "schedule", tenantId |-> f.tenantId, itemId |-> f.itemId,
             startingDate |-> f.startingDate, pre |-> pre[q]]
    ELSE IF pc' = pc THEN NoCall ELSE lastSched

\* No call for the item is in progress and none of its jobs is pending after the step.
Quiescent(t, i) ==
  /\ PendingCount(jobs', t, i) = 0
  /\ \A q \in Procs :
       pc'[q] \in SchedLabels => <<frame'[q].tenantId, frame'[q].itemId>> # <<t, i>>

\* History: the items for which a call started while another call for it was in
\* progress, since the item was last quiescent.
TrackOverlapped ==
  overlapped' =
    {pair \in overlapped \cup
       {<<frame'[p].tenantId, frame'[p].itemId>> : p \in
          {p \in Procs :
             /\ pc[p] = "idle" /\ pc'[p] = "sched_query"
             /\ \E q \in Procs \ {p} :
                  /\ pc[q] \in SchedLabels
                  /\ frame[q].tenantId = frame'[p].tenantId
                  /\ frame[q].itemId = frame'[p].itemId}} :
       ~Quiescent(pair[1], pair[2])}

\* History: the pending jobs of the called item as the call found them.
TrackPre ==
  pre' = [p \in Procs |->
            IF pc[p] = "idle" /\ pc'[p] = "sched_query"
            THEN PendingOf(jobs, frame'[p].tenantId, frame'[p].itemId)
            ELSE IF pc'[p] = "idle" THEN <<>> ELSE pre[p]]

\* The histories kept for calls that interleave.
HistSched == TrackOverlapped /\ UNCHANGED <<lastSched, pre, recVars, costVars>>

\* Scheduling calls that interleave at their awaits, and the job runtime.
NextSched ==
  \/ \E p \in Procs : SchedCancel(p) /\ HistSched
  \/ \E p \in Procs : SchedQuery(p) /\ HistSched
  \/ \E p \in Procs : SchedEnqueue(p) /\ HistSched
  \/ \E p \in Procs : SchedDispatch(p) /\ HistSched
  \/ JobRun /\ HistSched

SpecSched == Init /\ [][NextSched]_vars

\* The histories kept for calls one at a time.
HistSchedSeq == TrackLastSched /\ TrackPre /\ UNCHANGED <<overlapped, recVars, costVars>>

\* Scheduling calls one at a time: a call starts, and a job runs, only between calls.
NextSchedSeq ==
  \/ \E p \in SeqProcs : AllIdle /\ SchedCancel(p) /\ HistSchedSeq
  \/ \E p \in SeqProcs : SchedQuery(p) /\ HistSchedSeq
  \/ \E p \in SeqProcs : SchedEnqueue(p) /\ HistSchedSeq
  \/ \E p \in SeqProcs : SchedDispatch(p) /\ HistSchedSeq
  \/ AllIdle /\ JobRun /\ HistSchedSeq

SpecSchedSeq == Init /\ [][NextSchedSeq]_vars

\* ------------------------------------------------------------- recorder and lot number

\* The counter as a number: 0 while no setting is stored.
CounterValue(t) == IF Truthy(settings[t]) THEN ParseInt10(settings[t]) ELSE 0

\* The increments made and those the calls in progress will make, over all tenants.
Increments == SumOver([t \in Tenants |-> CounterValue(t)], Tenants) + IncrementsToCome

RecordingFrame(op, tenantId, doc, direction, date, override, lotNumber) ==
  [op |-> op, tenantId |-> tenantId,
   transactionId |-> doc.id, transactionType |-> doc.type,
   direction |-> direction, date |-> date, override |-> override,
   lotNumber |-> lotNumber, txs |-> <<>>, task |-> <<>>, old |-> <<>>, result |-> 0]

StartRecording_NoDelete(f, transactions) ==
  [f EXCEPT !.txs = transactions,
            !.task = [k \in DOMAIN transactions |-> "insert"],
            !.old = [k \in DOMAIN transactions |-> NoRows]]

\* recordInventoryTransactions, entry to await Promise.all: one recordInventoryTransaction
\* is started per transaction; with deleteOld it first awaits the find of
\* deleteInventoryTransactions, without it the insert.
StartRecording(f, transactions) ==
  [f EXCEPT !.txs = transactions,
            !.task = [k \in DOMAIN transactions |-> IF f.override THEN "find" ELSE "insert"],
            !.old = [k \in DOMAIN transactions |-> NoRows]]

\* "Can't continue if there is no entries has inventory items in the invoice."
NoInventoryEntries_Never(inventoryEntries) == Len(inventoryEntries) < 0

NoInventoryEntries(inventoryEntries) == Len(inventoryEntries) <= 0

\* recordInventoryTransactionsFromItemsEntries, entry to the first await:
\* getNextLotNumber, then getInventoryEntries is awaited.
RecFromStart(p) ==
  /\ pc[p] = "idle"
  /\ \E tenantId \in Tenants :
       \E doc \in DocsOf(tenantId), date \in TxDates, override \in BOOLEAN :
         \E direction \in DirectionsOf(doc.type) :
           /\ StoredRows + RowsToCome
                + Len(GetInventoryEntries(tenantId, doc.type, doc.id)) <= MaxRows
           /\ Increments < MaxLot
           /\ frame' = [frame EXCEPT ![p] =
                RecordingFrame("recordFromEntries", tenantId, doc, direction, date,
                               override, GetNextLotNumber(SettingsFind(settings, tenantId)))]
  /\ pc' = [pc EXCEPT ![p] = "rec_entries"]
  /\ ret' = [q \in Procs |-> NoRet]
  /\ emitted' = <<>>
  /\ UNCHANGED <<settings, store>>

\* getInventoryEntries resolves: return when no entry has an inventory item, else
\* transform the entries and start recording them.
RecEntries(p) ==
  /\ pc[p] = "rec_entries"
  /\ LET f == frame[p]
         inventoryEntries ==
           GetInventoryEntries(f.tenantId, f.transactionType, f.transactionId)
     IN IF NoInventoryEntries(inventoryEntries)
        THEN /\ pc' = [pc EXCEPT ![p] = "idle"]
             /\ frame' = [frame EXCEPT ![p] = NoFrame]
             /\ ret' = [[q \in Procs |-> NoRet] EXCEPT ![p] = [status |-> "ok"]]
        ELSE /\ pc' = [pc EXCEPT ![p] = "rec_tasks"]
             /\ frame' = [frame EXCEPT ![p] =
                  StartRecording(f, TransformItemEntriesToInventory(
                                      inventoryEntries, f.direction, f.date, f.lotNumber))]
             /\ ret' = [q \in Procs |-> NoRet]
  /\ emitted' = <<>>
  /\ UNCHANGED <<settings, store>>

\* recordInventoryTransactions called directly with the transactions of one document.
RecManyCall(p) ==
  /\ pc[p] = "idle"
  /\ \E tenantId \in Tenants :
       \E doc \in DocsOf(tenantId), date \in TxDates, override \in BOOLEAN, lotNumber \in CallLots :
         \E direction \in DirectionsOf(doc.type) :
           LET entries == GetInventoryEntries(tenantId, doc.type, doc.id)
           IN /\ StoredRows + RowsToCome + Len(entries) <= MaxRows
              /\ frame' = [frame EXCEPT ![p] =
                   StartRecording(
                     RecordingFrame("recordMany", tenantId, doc, direction, date,
                                    override, lotNumber),
                     TransformItemEntriesToInventory(entries, direction, date, lotNumber))]
  /\ pc' = [pc EXCEPT ![p] = "rec_tasks"]
  /\ ret' = [q \in Procs |-> NoRet]
  /\ emitted' = <<>>
  /\ UNCHANGED <<settings, store>>

TaskLabels == {"rec_tasks", "rec_orphans"}

\* recordInventoryTransaction k with deleteOld: the find of deleteInventoryTransactions.
TaskFind(p, k) ==
  /\ pc[p] \in TaskLabels
  /\ k \in DOMAIN frame[p].task
  /\ frame[p].task[k] = "find"
  /\ LET f == frame[p]
     IN frame' = [frame EXCEPT ![p].task[k] = "delete",
                               ![p].old[k] = FindBy(store[f.tenantId], f.txs[k].transactionId,
                                                    f.txs[k].transactionType)]
  /\ emitted' = <<>>
  /\ ret' = [q \in Procs |-> NoRet]
  /\ UNCHANGED <<pc, settings, store>>

\* recordInventoryTransaction k with deleteOld: the deleteBy, then the
\* onInventoryTransactionsDeleted dispatch; the insert is awaited next.
TaskDelete(p, k) ==
  /\ pc[p] \in TaskLabels
  /\ k \in DOMAIN frame[p].task
  /\ frame[p].task[k] = "delete"
  /\ LET f == frame[p]
         tx == f.txs[k]
     IN /\ store' = [store EXCEPT ![f.tenantId] =
                       DeleteBy(@, tx.transactionType, tx.transactionId)]
        /\ emitted' = <<DeletedEvent(f.tenantId, f.old[k], tx.transactionId,
                                     tx.transactionType)>>
  /\ frame' = [frame EXCEPT ![p].task[k] = "insert"]
  /\ ret' = [q \in Procs |-> NoRet]
  /\ UNCHANGED <<pc, settings>>

\* recordInventoryTransaction k: the insert succeeds.
TaskInsert(p, k) ==
  /\ pc[p] \in TaskLabels
  /\ k \in DOMAIN frame[p].task
  /\ frame[p].task[k] = "insert"
  /\ store' = [store EXCEPT ![frame[p].tenantId] = InsertRow(@, frame[p].txs[k])]
  /\ frame' = [frame EXCEPT ![p].task[k] = "done"]
  /\ emitted' = <<>>
  /\ ret' = [q \in Procs |-> NoRet]
  /\ UNCHANGED <<pc, settings>>

\* recordInventoryTransaction k: the insert fails with a storage error.
TaskInsertFails(p, k) ==
  /\ pc[p] \in TaskLabels
  /\ k \in DOMAIN frame[p].task
  /\ frame[p].task[k] = "insert"
  /\ frame' = [frame EXCEPT ![p].task[k] = "failed"]
  /\ emitted' = <<>>
  /\ ret' = [q \in Procs |-> NoRet]
  /\ UNCHANGED <<pc, settings, store>>

PromiseAllResolved_Any(task) == \E k \in DOMAIN task : task[k] = "done"

\* await Promise.all(bulkInsertOpers) resolves: every operation has resolved.
PromiseAllResolved(task) == \A k \in DOMAIN task : task[k] = "done"

\* Promise.all resolves: the onInventoryTransactionsCreated dispatch, and
\* recordInventoryTransactions returns.
RecCreated(p) ==
  /\ pc[p] = "rec_tasks"
  /\ PromiseAllResolved(frame[p].task)
  /\ emitted' = <<CreatedEvent(frame[p].tenantId, frame[p].txs)>>
  /\ IF frame[p].op = "recordFromEntries"
     THEN /\ pc' = [pc EXCEPT ![p] = "incr_set"]
          /\ ret' = [q \in Procs |-> NoRet]
          /\ UNCHANGED frame
     ELSE /\ pc' = [pc EXCEPT ![p] = "idle"]
          /\ frame' = [frame EXCEPT ![p] = NoFrame]
          /\ ret' = [[q \in Procs |-> NoRet] EXCEPT ![p] = [status |-> "ok"]]
  /\ UNCHANGED <<settings, store>>

\* Promise.all rejects with the first failed insert: the call throws to its caller,
\* the recordInventoryTransaction calls still running go on.
RecRejected(p) ==
  /\ pc[p] = "rec_tasks"
  /\ \E k \in DOMAIN frame[p].task : frame[p].task[k] = "failed"
  /\ pc' = [pc EXCEPT ![p] = "rec_orphans"]
  /\ ret' = [[q \in Procs |-> NoRet] EXCEPT ![p] = [status |-> "error"]]
  /\ emitted' = <<>>
  /\ UNCHANGED <<frame, settings, store>>

\* The last recordInventoryTransaction of a rejected call settles.
OrphansSettled(p) ==
  /\ pc[p] = "rec_orphans"
  /\ \A k \in DOMAIN frame[p].task : frame[p].task[k] \in {"done", "failed"}
  /\ pc' = [pc EXCEPT ![p] = "idle"]
  /\ frame' = [frame EXCEPT ![p] = NoFrame]
  /\ emitted' = <<>>
  /\ ret' = [q \in Procs |-> NoRet]
  /\ UNCHANGED <<settings, store>>

\* incrementNextLotNumber at the end of recordInventoryTransactionsFromItemsEntries,
\* entry to await settings.save(): settings.find and settings.set on the call's
\* settings handle, no await between.
RecIncrement(p) ==
  /\ pc[p] = "incr_set"
  /\ LET t == frame[p].tenantId
         lotNumber == IncrementedLotNumber(SettingsFind(settings, t))
     IN frame' = [frame EXCEPT ![p].result = lotNumber]
  /\ pc' = [pc EXCEPT ![p] = "incr_save"]
  /\ emitted' = <<>>
  /\ ret' = [q \in Procs |-> NoRet]
  /\ UNCHANGED <<settings, store>>

\* incrementNextLotNumber called directly, entry to await settings.save().
IncrCall(p) ==
  /\ pc[p] = "idle"
  /\ \E t \in Tenants :
       /\ Increments < MaxLot
       /\ LET lotNumber == IncrementedLotNumber(SettingsFind(settings, t))
          IN frame' = [frame EXCEPT ![p] =
               [op |-> "incrementNextLotNumber", tenantId |-> t, result |-> lotNumber]]
  /\ pc' = [pc EXCEPT ![p] = "incr_save"]
  /\ ret' = [q \in Procs |-> NoRet]
  /\ emitted' = <<>>
  /\ UNCHANGED <<settings, store>>

\* settings.save() resolves, the value set is stored, and incrementNextLotNumber
\* returns lotNumber.
IncrSave(p) ==
  /\ pc[p] = "incr_save"
  /\ settings' = SettingsSave(settings, frame[p].tenantId, frame[p].result)
  /\ ret' = [[q \in Procs |-> NoRet] EXCEPT ![p] =
               IF frame[p].op = "incrementNextLotNumber"
               THEN [status |-> "ok", lotNumber |-> frame[p].result]
               ELSE [status |-> "ok"]]
  /\ pc' = [pc EXCEPT ![p] = "idle"]
  /\ frame' = [frame EXCEPT ![p] = NoFrame]
  /\ emitted' = <<>>
  /\ UNCHANGED store

\* deleteInventoryTransactions called directly: the find.
DelCall(p) ==
  /\ pc[p] = "idle"
  /\ \E tenantId \in Tenants, doc \in DocsOf(1) \cup DocsOf(2) :
       frame' = [frame EXCEPT ![p] =
         [op |-> "deleteInventoryTransactions", tenantId |-> tenantId,
          transactionId |-> doc.id, transactionType |-> doc.type,
          old |-> FindBy(store[tenantId], doc.id, doc.type)]]
  /\ pc' = [pc EXCEPT ![p] = "del_delete"]
  /\ ret' = [q \in Procs |-> NoRet]
  /\ emitted' = <<>>
  /\ UNCHANGED <<settings, store>>

\* deleteInventoryTransactions: the deleteBy, the onInventoryTransactionsDeleted
\* dispatch, and the return of { oldInventoryTransactions }.
DelDelete(p) ==
  /\ pc[p] = "del_delete"
  /\ LET f == frame[p]
     IN /\ store' = [store EXCEPT ![f.tenantId] =
                       DeleteBy(@, f.transactionType, f.transactionId)]
        /\ emitted' = <<DeletedEvent(f.tenantId, f.old, f.transactionId, f.transactionType)>>
        /\ ret' = [[q \in Procs |-> NoRet] EXCEPT ![p] =
                     [status |-> "ok", oldInventoryTransactions |-> f.old]]
  /\ pc' = [pc EXCEPT ![p] = "idle"]
  /\ frame' = [frame EXCEPT ![p] = NoFrame]
  /\ UNCHANGED settings

\* The step returns process p's incrementNextLotNumber call (direct or nested).
IncrReturns(p) == pc[p] = "incr_save" /\ pc'[p] = "idle"

\* The step returns process p's recordInventoryTransactionsFromItemsEntries call
\* after it recorded its transactions.
RecFromReturns(p) == IncrReturns(p) /\ frame[p].op = "recordFromEntries"

\* The step returns process p's recordInventoryTransactionsFromItemsEntries call
\* at the test of inventoryEntries.length.
RecFromSkips(p) == pc[p] = "rec_entries" /\ pc'[p] = "idle"

\* The step returns process p's direct recordInventoryTransactions call.
RecManyReturns(p) ==
  pc[p] = "rec_tasks" /\ pc'[p] = "idle" /\ frame[p].op = "recordMany"

\* The step returns process p's deleteInventoryTransactions call.
DelReturns(p) == pc[p] = "del_delete" /\ pc'[p] = "idle"

\* The deleteInventoryTransactions call of process p directly follows a returned
\* recording of the same document.
FollowsRecording(p) ==
  /\ lastRec.op \in {"recordMany", "recordFromEntries"}
  /\ lastRec.tenantId = frame[p].tenantId
  /\ lastRec.transactionId = frame[p].transactionId
  /\ lastRec.transactionType = frame[p].transactionType

\* History: the numbers incrementNextLotNumber has returned.
TrackIssued ==
  issued' = [t \in Tenants |->
               issued[t] \cup {frame[p].result : p \in
                  {q \in Procs : IncrReturns(q) /\ frame[q].tenantId = t}}]

\* History: the lot numbers stamped by the recordings from entries that returned.
TrackStamped ==
  stamped' = [t \in Tenants |->
                stamped[t] \cup {frame[p].lotNumber : p \in
                   {q \in Procs : RecFromReturns(q) /\ frame[q].tenantId = t}}]

\* The rows among `rows` that belong to the document of the call with frame f.
DocumentRows(rows, f) ==
  [x \in {y \in DOMAIN rows :
            y.transactionId = f.transactionId /\ y.transactionType = f.transactionType}
     |-> rows[x]]

\* History: the document's rows as they were stored when a recording or deleting
\* call started.
TrackPreRows ==
  pre' = [p \in Procs |->
            IF pc[p] = "idle" /\ pc'[p] \in {"rec_entries", "rec_tasks", "del_delete"}
            THEN DocumentRows(store[frame'[p].tenantId], frame'[p])
            ELSE IF pc'[p] = "idle" THEN <<>> ELSE pre[p]]

\* History: the recording that returned last, marked "deleted" when the call after
\* it deleted its document; the start of any other call forgets it.
TrackLastRec ==
  lastRec' =
    IF \E p \in Procs : RecFromReturns(p) \/ RecManyReturns(p) \/ RecFromSkips(p)
    THEN LET p == CHOOSE q \in Procs :
                    RecFromReturns(q) \/ RecManyReturns(q) \/ RecFromSkips(q)
         IN [op |-> frame[p].op, tenantId |-> frame[p].tenantId,
             transactionId |-> frame[p].transactionId,
             transactionType |-> frame[p].transactionType,
             override |-> frame[p].override, txs |-> frame[p].txs, pre |-> pre[p]]
    ELSE IF \E p \in Procs : DelReturns(p) /\ FollowsRecording(p)
    THEN [lastRec EXCEPT !.op = "deleted"]
    ELSE IF \E p \in Procs : pc'[p] # pc[p] /\ ~(pc[p] = "idle" /\ pc'[p] = "del_delete")
    THEN NoRec
    ELSE lastRec

\* History: a tenant races once two incrementNextLotNumber calls for it are in
\* progress together.
TrackRacing ==
  racing' = racing \cup
    {t \in Tenants :
       \E p, q \in Procs :
         /\ p # q
         /\ pc'[p] = "incr_save" /\ frame'[p].tenantId = t
         /\ pc'[q] = "incr_save" /\ frame'[q].tenantId = t}

\* The histories kept for recorder calls one at a time.
HistRecSeq ==
  /\ TrackIssued /\ TrackStamped /\ TrackPreRows /\ TrackLastRec
  /\ UNCHANGED <<jobs, lastSched, overlapped, racing, costVars, failed>>

\* Recorder and lot number calls one at a time; the recordInventoryTransaction calls
\* of one batch still interleave.
NextRecSeq ==
  \/ \E p \in SeqProcs : AllIdle /\ RecFromStart(p) /\ HistRecSeq
  \/ \E p \in SeqProcs : RecEntries(p) /\ HistRecSeq
  \/ \E p \in SeqProcs : AllIdle /\ RecManyCall(p) /\ HistRecSeq
  \/ \E p \in SeqProcs, k \in 1 .. MaxRows : TaskFind(p, k) /\ HistRecSeq
  \/ \E p \in SeqProcs, k \in 1 .. MaxRows : TaskDelete(p, k) /\ HistRecSeq
  \/ \E p \in SeqProcs, k \in 1 .. MaxRows : TaskInsert(p, k) /\ HistRecSeq
  \/ \E p \in SeqProcs, k \in 1 .. MaxRows : TaskInsertFails(p, k) /\ HistRecSeq
  \/ \E p \in SeqProcs : RecCreated(p) /\ HistRecSeq
  \/ \E p \in SeqProcs : RecRejected(p) /\ HistRecSeq
  \/ \E p \in SeqProcs : OrphansSettled(p) /\ HistRecSeq
  \/ \E p \in SeqProcs : RecIncrement(p) /\ HistRecSeq
  \/ \E p \in SeqProcs : AllIdle /\ IncrCall(p) /\ HistRecSeq
  \/ \E p \in SeqProcs : IncrSave(p) /\ HistRecSeq
  \/ \E p \in SeqProcs : AllIdle /\ DelCall(p) /\ HistRecSeq
  \/ \E p \in SeqProcs : DelDelete(p) /\ HistRecSeq

SpecRecSeq == Init /\ [][NextRecSeq]_vars

\* The histories kept for incrementNextLotNumber calls that interleave.
HistLot ==
  /\ TrackIssued /\ TrackRacing
  /\ UNCHANGED <<jobs, lastSched, overlapped, pre, stamped, lastRec, costVars, failed>>

\* incrementNextLotNumber calls that interleave at the await of settings.save().
NextLot ==
  \/ \E p \in Procs : IncrCall(p) /\ HistLot
  \/ \E p \in Procs : IncrSave(p) /\ HistLot

SpecLot == Init /\ [][NextLot]_vars

\* ------------------------------------------------------------- cost computation

\* The items of each tenant, as Item.query().findById(itemId) finds them: items 1,
\* 2 and 3 are inventory items configured FIFO, LIFO and AVG, item 4 is a service,
\* and there is no item 5.
CostItems == 1 .. 5
Undefined == [type |-> "undefined"]
FindItemById(tenantId, itemId) ==
  IF itemId = 1 THEN [type |-> "inventory", costMethod |-> "FIFO"]
  ELSE IF itemId = 2 THEN [type |-> "inventory", costMethod |-> "LIFO"]
  ELSE IF itemId = 3 THEN [type |-> "inventory", costMethod |-> "AVG"]
  ELSE IF itemId = 4 THEN [type |-> "service", costMethod |-> "AVG"]
  ELSE Undefined

TypeError == [status |-> "error", error |-> "TypeError"]
NotInventoryError ==
  [status |-> "error",
   error |-> "You could not compute item cost has no inventory type."]

\* The discriminant of the switch of computeItemCost: the literal 'AVG'.
SwitchedCostMethod(item) == "AVG"

\* The cases of the switch: the cost method computer constructed.
CostMethodComputer(method) ==
  IF method \in {"FIFO", "LIFO"} THEN "InventoryCostLotTracker"
  ELSE IF method = "AVG" THEN "InventoryAverageCost"
  ELSE "undefined"

\* costMethodComputer.computeItemCost(): the lot tracker records lot cost rows, the
\* average cost computer records none.
LotCostsAfter(computer, rows) ==
  IF computer = "InventoryCostLotTracker" THEN rows + 1 ELSE rows

\* computeItemCost, entry to await Item.query().findById(itemId).
CostCall(p) ==
  /\ pc[p] = "idle"
  /\ \E tenantId \in Tenants, itemId \in CostItems, fromDate \in Dates :
       frame' = [frame EXCEPT ![p] =
         [op |-> "computeItemCost", tenantId |-> tenantId, itemId |-> itemId,
          fromDate |-> fromDate]]
  /\ pc' = [pc EXCEPT ![p] = "cost_find"]
  /\ ret' = [q \in Procs |-> NoRet]
  /\ emitted' = <<>>
  /\ invoked' = <<>>
  /\ UNCHANGED lotCosts

\* findById resolves: the test of item.type, the switch, and the computer's
\* computeItemCost, whose result the call returns.
CostDispatch(p) ==
  /\ pc[p] = "cost_find"
  /\ LET f == frame[p]
         item == FindItemById(f.tenantId, f.itemId)
         computer == CostMethodComputer(SwitchedCostMethod(item))
     IN IF item = Undefined
        THEN /\ ret' = [[q \in Procs |-> NoRet] EXCEPT ![p] = TypeError]
             /\ invoked' = <<>>
             /\ UNCHANGED lotCosts
        ELSE IF item.type # "inventory"
        THEN /\ ret' = [[q \in Procs |-> NoRet] EXCEPT ![p] = NotInventoryError]
             /\ invoked' = <<>>
             /\ UNCHANGED lotCosts
        ELSE /\ ret' = [[q \in Procs |-> NoRet] EXCEPT ![p] = [status |-> "ok"]]
             /\ invoked' = <<[computer |-> computer, tenantId |-> f.tenantId,
                              fromDate |-> f.fromDate, itemId |-> f.itemId]>>
             /\ lotCosts' = LotCostsAfter(computer, lotCosts)
  /\ pc' = [pc EXCEPT ![p] = "idle"]
  /\ frame' = [frame EXCEPT ![p] = NoFrame]
  /\ emitted' = <<>>

\* The step returns process p's computeItemCost call.
CostReturns(p) == pc[p] = "cost_find" /\ pc'[p] = "idle"

\* No history is kept for computeItemCost calls.
HistCost ==
  UNCHANGED <<jobs, lastSched, overlapped, pre, settings, store, issued, stamped,
              lastRec, racing, failed>>

\* computeItemCost calls that interleave at the await of findById.
NextCost ==
  \/ \E p \in Procs : CostCall(p) /\ HistCost
  \/ \E p \in Procs : CostDispatch(p) /\ HistCost

SpecCost == Init /\ [][NextCost]_vars

\* ------------------------------------------------------------- transform

\* The item entries, and the lists of them, handed to transformItemEntriesToInventory.
EntryPool ==
  {ItemEntry(1, 1, 2, 5, Bill42), ItemEntry(2, 2, 1, 3, Bill42),
   ItemEntry(3, 1, 1, 7, Invoice42), ItemEntry(4, 2, 4, 2, Bill43)}

EntryLists == UNION {[1 .. n -> EntryPool] : n \in 0 .. MaxEntries}

TransformArgs ==
  [op : {"transformItemEntriesToInventory"}, itemEntries : EntryLists,
   direction : {"IN", "OUT"}, date : Dates, lotNumber : {1, 2}]

\* A caller is about to call transformItemEntriesToInventory with some arguments.
InitTransform ==
  /\ jobs = [j \in JobKinds |-> 0]
  /\ pc = [p \in Procs |-> IF p \in SeqProcs THEN "transform" ELSE "idle"]
  /\ \E args \in TransformArgs :
       frame = [p \in Procs |-> IF p \in SeqProcs THEN args ELSE NoFrame]
  /\ emitted = <<>>
  /\ lastSched = NoCall
  /\ overlapped = {}
  /\ pre = [p \in Procs |-> <<>>]
  /\ settings = [t \in Tenants |-> Unset]
  /\ store = [t \in Tenants |-> NoRows]
  /\ ret = [p \in Procs |-> NoRet]
  /\ issued = [t \in Tenants |-> {}]
  /\ stamped = [t \in Tenants |-> {}]
  /\ lastRec = NoRec
  /\ racing = {}
  /\ failed = [t \in Tenants |-> {}]
  /\ invoked = <<>>
  /\ lotCosts = 0

\* transformItemEntriesToInventory is called and returns its list.
TransformCall(p) ==
  /\ pc[p] = "transform"
  /\ LET f == frame[p]
     IN ret' = [[q \in Procs |-> NoRet] EXCEPT ![p] =
          [status |-> "ok",
           value |-> TransformItemEntriesToInventory(f.itemEntries, f.direction,
                                                     f.date, f.lotNumber)]]
  /\ pc' = [pc EXCEPT ![p] = "idle"]
  /\ frame' = [frame EXCEPT ![p] = NoFrame]
  /\ emitted' = <<>>
  /\ UNCHANGED <<jobs, lastSched, overlapped, pre, settings, store, issued, stamped,
                 lastRec, racing, costVars, failed>>

\* The step returns process p's transformItemEntriesToInventory call.
TransformReturns(p) == pc[p] = "transform" /\ pc'[p] = "idle"

NextTransform == \E p \in Procs : TransformCall(p)

SpecTransform == InitTransform /\ [][NextTransform]_vars

\* ------------------------------------------------------------- recordInventoryTransaction alone

\* The transactions handed to a direct recordInventoryTransaction call.
OneTransactions ==
  {TransformItemEntriesToInventory(<<entry>>, direction, date, lotNumber)[1] :
     entry \in EntryPool, direction \in {"IN", "OUT"}, date \in TxDates,
     lotNumber \in CallLots}

\* recordInventoryTransaction called directly, entry to its first await: with
\* deleteOld the find of deleteInventoryTransactions, without it the insert.
RecOneCall(p) ==
  /\ pc[p] = "idle"
  /\ StoredRows + RowsToCome < MaxRows
  /\ \E tenantId \in Tenants, inventoryEntry \in OneTransactions, deleteOld \in BOOLEAN :
       /\ inventoryEntry.direction \in DirectionsOf(inventoryEntry.transactionType)
       /\ frame' = [frame EXCEPT ![p] =
            StartRecording(
              RecordingFrame("recordOne", tenantId,
                             [type |-> inventoryEntry.transactionType,
                              id |-> inventoryEntry.transactionId],
                             inventoryEntry.direction, inventoryEntry.date, deleteOld,
                             inventoryEntry.lotNumber),
              <<inventoryEntry>>)]
  /\ pc' = [pc EXCEPT ![p] = "rec_one"]
  /\ ret' = [q \in Procs |-> NoRet]
  /\ emitted' = <<>>
  /\ UNCHANGED <<settings, store>>

\* deleteOld: the find of deleteInventoryTransactions resolves.
RecOneFind(p) ==
  /\ pc[p] = "rec_one"
  /\ frame[p].task[1] = "find"
  /\ LET f == frame[p]
     IN frame' = [frame EXCEPT ![p].task[1] = "delete",
                               ![p].old[1] = FindBy(store[f.tenantId], f.txs[1].transactionId,
                                                    f.txs[1].transactionType)]
  /\ emitted' = <<>>
  /\ ret' = [q \in Procs |-> NoRet]
  /\ UNCHANGED <<pc, settings, store>>

\* deleteOld: the deleteBy and the onInventoryTransactionsDeleted dispatch; the
\* insert is awaited next.
RecOneDelete(p) ==
  /\ pc[p] = "rec_one"
  /\ frame[p].task[1] = "delete"
  /\ LET f == frame[p]
         tx == f.txs[1]
     IN /\ store' = [store EXCEPT ![f.tenantId] =
                       DeleteBy(@, tx.transactionType, tx.transactionId)]
        /\ emitted' = <<DeletedEvent(f.tenantId, f.old[1], tx.transactionId,
                                     tx.transactionType)>>
  /\ frame' = [frame EXCEPT ![p].task[1] = "insert"]
  /\ ret' = [q \in Procs |-> NoRet]
  /\ UNCHANGED <<pc, settings>>

\* The insert resolves and recordInventoryTransaction returns the row.
RecOneInsert(p) ==
  /\ pc[p] = "rec_one"
  /\ frame[p].task[1] = "insert"
  /\ store' = [store EXCEPT ![frame[p].tenantId] = InsertRow(@, frame[p].txs[1])]
  /\ ret' = [[q \in Procs |-> NoRet] EXCEPT ![p] =
               [status |-> "ok", value |-> frame[p].txs[1]]]
  /\ pc' = [pc EXCEPT ![p] = "idle"]
  /\ frame' = [frame EXCEPT ![p] = NoFrame]
  /\ emitted' = <<>>
  /\ UNCHANGED settings

\* The insert rejects and recordInventoryTransaction throws.
RecOneInsertFails(p) ==
  /\ pc[p] = "rec_one"
  /\ frame[p].task[1] = "insert"
  /\ ret' = [[q \in Procs |-> NoRet] EXCEPT ![p] = [status |-> "error"]]
  /\ pc' = [pc EXCEPT ![p] = "idle"]
  /\ frame' = [frame EXCEPT ![p] = NoFrame]
  /\ emitted' = <<>>
  /\ UNCHANGED <<settings, store>>

\* The step returns process p's recordInventoryTransaction call with its row.
RecOneReturns(p) == pc[p] = "rec_one" /\ pc'[p] = "idle" /\ ret'[p].status = "ok"

\* The history kept for recordInventoryTransaction calls one at a time.
HistRecOne ==
  /\ TrackPreRows
  /\ UNCHANGED <<jobs, lastSched, overlapped, issued, stamped, lastRec, racing, costVars, failed>>

\* recordInventoryTransaction calls one at a time.
NextRecOne ==
  \/ \E p \in SeqProcs : AllIdle /\ RecOneCall(p) /\ HistRecOne
  \/ \E p \in SeqProcs : RecOneFind(p) /\ HistRecOne
  \/ \E p \in SeqProcs : RecOneDelete(p) /\ HistRecOne
  \/ \E p \in SeqProcs : RecOneInsert(p) /\ HistRecOne
  \/ \E p \in SeqProcs : RecOneInsertFails(p) /\ HistRecOne

SpecRecOne == Init /\ [][NextRecOne]_vars

\* ------------------------------------------------------------- recordings from entries that fail

\* The step throws process p's recordInventoryTransactionsFromItemsEntries call out
\* of the await of recordInventoryTransactions.
RecFromThrows(p) ==
  /\ frame[p].op = "recordFromEntries"
  /\ pc[p] = "rec_tasks"
  /\ pc'[p] = "rec_orphans"

\* The step of process p's recordInventoryTransactionsFromItemsEntries call that
\* stamps its lot number on the transactions it records.
RecFromStamps(p) ==
  /\ frame[p].op = "recordFromEntries"
  /\ pc[p] = "rec_entries"
  /\ pc'[p] = "rec_tasks"

\* History: the lot numbers obtained by the recordings from entries that threw.
TrackFailed ==
  failed' = [t \in Tenants |->
               failed[t] \cup {frame[p].lotNumber : p \in
                  {q \in Procs : RecFromThrows(q) /\ frame[q].tenantId = t}}]

\* The histories kept for recordings from entries that may fail.
HistRecFail ==
  /\ TrackFailed /\ TrackStamped
  /\ UNCHANGED <<jobs, lastSched, overlapped, pre, issued, lastRec, racing, costVars>>

\* recordInventoryTransactionsFromItemsEntries calls one at a time, each running to
\* its return or to its throw.
NextRecFail ==
  \/ \E p \in SeqProcs : AllIdle /\ RecFromStart(p) /\ HistRecFail
  \/ \E p \in SeqProcs : RecEntries(p) /\ HistRecFail
  \/ \E p \in SeqProcs, k \in 1 .. MaxRows : TaskFind(p, k) /\ HistRecFail
  \/ \E p \in SeqProcs, k \in 1 .. MaxRows : TaskDelete(p, k) /\ HistRecFail
  \/ \E p \in SeqProcs, k \in 1 .. MaxRows : TaskInsert(p, k) /\ HistRecFail
  \/ \E p \in SeqProcs, k \in 1 .. MaxRows : TaskInsertFails(p, k) /\ HistRecFail
  \/ \E p \in SeqProcs : RecCreated(p) /\ HistRecFail
  \/ \E p \in SeqProcs : RecRejected(p) /\ HistRecFail
  \/ \E p \in SeqProcs : OrphansSettled(p) /\ HistRecFail
  \/ \E p \in SeqProcs : RecIncrement(p) /\ HistRecFail
  \/ \E p \in SeqProcs : IncrSave(p) /\ HistRecFail

SpecRecFail == Init /\ [][NextRecFail]_vars

\* ------------------------------------------------------------- recordings from entries that overlap

\* Process p's recordInventoryTransactionsFromItemsEntries call has stamped its lot
\* number on its transactions and has not returned.
RecFromStamped(p) ==
  /\ frame[p].op = "recordFromEntries"
  /\ pc[p] \in {"rec_tasks", "incr_set", "incr_save"}

\* The histories kept for recordings from entries that interleave.
HistRecRace ==
  /\ TrackStamped /\ TrackIssued
  /\ UNCHANGED <<jobs, lastSched, overlapped, pre, lastRec, racing, failed, costVars>>

\* recordInventoryTransactionsFromItemsEntries calls that interleave at their awaits.
NextRecRace ==
  \/ \E p \in Procs : RecFromStart(p) /\ HistRecRace
  \/ \E p \in Procs : RecEntries(p) /\ HistRecRace
  \/ \E p \in Procs, k \in 1 .. MaxRows : TaskFind(p, k) /\ HistRecRace
  \/ \E p \in Procs, k \in 1 .. MaxRows : TaskDelete(p, k) /\ HistRecRace
  \/ \E p \in Procs, k \in 1 .. MaxRows : TaskInsert(p, k) /\ HistRecRace
  \/ \E p \in Procs : RecCreated(p) /\ HistRecRace
  \/ \E p \in Procs : RecIncrement(p) /\ HistRecRace
  \/ \E p \in Procs : IncrSave(p) /\ HistRecRace

SpecRecRace == Init /\ [][NextRecRace]_vars

\* ------------------------------------------------------------- scheduler claims

MinDate(S) == CHOOSE d \in S : \A e \in S : d <= e

\* C1: when scheduleComputeItemCost calls run one at a time from an empty queue,
\* every call returns with exactly one pending job for the called (tenantId, itemId):
\* the frontier job of minimal startingDate, which is at most the requested date,
\* and no pending job of the pair has a greater startingDate than the frontier.
C1_OneFrontierJob ==
  [][\A p \in Procs : SchedReturns(p) =>
       LET f == frame[p]
           dates == PendingDates(jobs', f.tenantId, f.itemId)
       IN /\ PendingCount(jobs', f.tenantId, f.itemId) = 1
          /\ dates # {}
          /\ MinDate(dates) <= f.startingDate
          /\ \A d \in dates : ~(d > MinDate(dates))]_vars

\* A call returned without enqueuing (an earlier job covers it) while another item
\* has its own pending job.
C1_Witness ==
  /\ AllIdle
  /\ lastSched # NoCall
  /\ PendingDates(jobs, lastSched.tenantId, lastSched.itemId) \cap
       {d \in Dates : d < lastSched.startingDate} # {}
  /\ \E pair \in Pairs :
       /\ pair # <<lastSched.tenantId, lastSched.itemId>>
       /\ PendingCount(jobs, pair[1], pair[2]) = 1

\* The returning call of process p directly follows (no job run, no other call) a
\* call for the same (tenantId, itemId) with a later starting date.
FollowsLaterCall(p) ==
  /\ lastSched # NoCall
  /\ lastSched.tenantId = frame[p].tenantId
  /\ lastSched.itemId = frame[p].itemId
  /\ frame[p].startingDate < lastSched.startingDate

\* What C2 concludes for the second call (t, i, D1) after the first (t, i, D2): no
\* job D2 of the pair is pending and exactly one job is, with startingDate D1.
OnlyEarlierJobRemains(p) ==
  LET f == frame[p]
  IN /\ jobs'[PendingJob(f.tenantId, f.itemId, lastSched.startingDate)] = 0
     /\ PendingCount(jobs', f.tenantId, f.itemId) = 1
     /\ PendingDates(jobs', f.tenantId, f.itemId) = {f.startingDate}

\* C2 as stated: scheduleComputeItemCost(t, i, D2) directly followed by
\* scheduleComputeItemCost(t, i, D1) with D1 < D2 and no job run in between leaves
\* the job D2 cancelled and exactly one pending job of (t, i), with startingDate D1.
C2_Original ==
  [][\A p \in Procs :
       (SchedReturns(p) /\ FollowsLaterCall(p)) => OnlyEarlierJobRemains(p)]_vars

\* C2, amended: the same, provided no pending job of (t, i) has a startingDate
\* earlier than D1 when the first call starts (such a job covers both requests,
\* and neither call enqueues).
C2_LaterJobSuperseded ==
  [][\A p \in Procs :
       (/\ SchedReturns(p)
        /\ FollowsLaterCall(p)
        /\ \A d \in Dates : d < frame[p].startingDate => lastSched.pre[d] = 0)
       => OnlyEarlierJobRemains(p)]_vars

\* The second call of the scenario is about to return: the first call, for the same
\* item with a later date, enqueued its job, which the second call has cancelled.
C2_Witness ==
  \E p \in Procs :
    /\ pc[p] = "sched_dispatch"
    /\ FollowsLaterCall(p)
    /\ \A d \in Dates : lastSched.pre[d] = 0
    /\ pre[p][lastSched.startingDate] = 1
    /\ jobs[PendingJob(frame[p].tenantId, frame[p].itemId, lastSched.startingDate)] = 0
    /\ jobs[PendingJob(frame[p].tenantId, frame[p].itemId, frame[p].startingDate)] = 1

\* A pending job of the item with a startingDate at or before the requested one existed
\* when the call started.
CoveredAtEntry(p) ==
  \E d \in Dates : d <= frame[p].startingDate /\ pre[p][d] > 0

\* C3: if a pending job of (t, i) with startingDate D1 exists when
\* scheduleComputeItemCost(t, i, D2) is called with D2 >= D1 (calls one at a time),
\* the call enqueues no job and cancels none: the pending jobs of (t, i) are the
\* same after as before, and exactly one pending job remains.
C3_CoveredCallChangesNothing ==
  [][\A p \in Procs :
       (SchedReturns(p) /\ CoveredAtEntry(p)) =>
       LET f == frame[p]
       IN /\ ~f.enqueued
          /\ PendingOf(jobs', f.tenantId, f.itemId) = pre[p]
          /\ PendingCount(jobs', f.tenantId, f.itemId) = 1
          /\ jobs' = jobs]_vars

\* A call with a later date D2 > D1 has found the pending job D1 and is about to
\* run its query.
C3_Witness ==
  \E p \in Procs :
    /\ pc[p] = "sched_query"
    /\ CoveredAtEntry(p)
    /\ pre[p][frame[p].startingDate] = 0
    /\ PendingOf(jobs, frame[p].tenantId, frame[p].itemId) = pre[p]


\* C4: two scheduleComputeItemCost calls of one (tenantId, itemId) whose steps
\* interleave can both pass the 'no covering job' check and both enqueue: a state
\* with two pending jobs of the pair is reachable (C4_Witness), and only so: two
\* pending jobs of a pair exist only after two calls for that pair have overlapped
\* (since the pair last had neither a pending job nor a call in progress).
C4_TwoPendingOnlyByRace ==
  \A pair \in Pairs :
    PendingCount(jobs, pair[1], pair[2]) >= 2 => pair \in overlapped

\* Both calls passed the check (both are past their enqueue) and two jobs are pending.
C4_Witness ==
  /\ pc[1] = "sched_dispatch" /\ pc[2] = "sched_dispatch"
  /\ frame[1].tenantId = frame[2].tenantId
  /\ frame[1].itemId = frame[2].itemId
  /\ PendingCount(jobs, frame[1].tenantId, frame[1].itemId) = 2

\* ------------------------------------------------------------- lot number and recorder claims

\* C5: lot numbers are strictly increasing and never reused: when successful
\* recordInventoryTransactionsFromItemsEntries calls with at least one inventory
\* entry run one at a time for one tenant from an unset counter, the lot number a
\* call stamps is greater than the lot number stamped by every earlier call.
C5_LotNumbersIncrease ==
  [][\A p \in Procs :
       RecFromReturns(p) =>
       \A n \in stamped[frame[p].tenantId] : frame[p].lotNumber > n]_vars

\* C6: incrementNextLotNumber called N times one at a time for a tenant from an
\* unset counter returns 1, 2, ..., N in that order: the k-th call to return gives
\* k, and the stored counter then reads k.
C6_IncrementCountsFromOne ==
  [][\A p \in Procs :
       IncrReturns(p) =>
       LET t == frame[p].tenantId
           k == Cardinality(issued[t]) + 1
       IN /\ issued[t] = 1 .. (k - 1)
          /\ frame[p].result = k
          /\ frame[p].op = "incrementNextLotNumber" =>
               ret'[p] = [status |-> "ok", lotNumber |-> k]
          /\ Truthy(settings'[t])
          /\ ParseInt10(settings'[t]) = k]_vars

\* Tenant 1's counter has been incremented by direct calls only, MaxLot times.
C6_Witness ==
  /\ AllIdle
  /\ issued[1] = 1 .. MaxLot
  /\ stamped[1] = {}
  /\ settings[1] = Digits(MaxLot)
  /\ \E p \in Procs : ret[p] = [status |-> "ok", lotNumber |-> MaxLot]

\* C7: two incrementNextLotNumber calls of one tenant that are in progress together
\* can return the same lot number (C7_Witness), and only so: a call returns a
\* number returned before only for a tenant two calls have been in progress for
\* together.
C7_DuplicateOnlyByRace ==
  [][\A p \in Procs :
       (IncrReturns(p) /\ frame[p].result \in issued[frame[p].tenantId])
       => frame[p].tenantId \in racing]_vars

\* One of two overlapping calls has returned a number and the other, which read the
\* counter before the first one's save resolved, returns the same number next.
C7_Witness ==
  \E p \in Procs :
    /\ pc[p] = "incr_save"
    /\ frame[p].tenantId \in racing
    /\ frame[p].result \in issued[frame[p].tenantId]
    /\ settings[frame[p].tenantId] = Digits(frame[p].result)
    /\ \E q \in Procs : ret[q] = [status |-> "ok", lotNumber |-> frame[p].result]

\* The recordInventoryTransactionsFromItemsEntries call of process p, before or
\* after the step, is for a document without inventory entries.
ZeroEntryCall(f) ==
  /\ f.op = "recordFromEntries"
  /\ Len(GetInventoryEntries(f.tenantId, f.transactionType, f.transactionId)) = 0

\* C8: recordInventoryTransactionsFromItemsEntries for a document with zero
\* inventory entries inserts no transaction, deletes none, emits no notification
\* and leaves the lot counter unchanged: no step of such a call changes the store
\* or the setting or dispatches an event, and the call returns from the length test.
C8_ZeroEntriesDoNothing ==
  [][\A p \in Procs :
       (pc'[p] # pc[p] /\ (ZeroEntryCall(frame[p]) \/ ZeroEntryCall(frame'[p]))) =>
       /\ store' = store
       /\ settings' = settings
       /\ emitted' = <<>>
       /\ pc'[p] \in {"rec_entries", "idle"}
       /\ pc'[p] = "idle" => ret'[p] = [status |-> "ok"]]_vars

\* A call for a document without inventory entries has returned while transactions
\* are stored and the tenant's counter is set.
C8_Witness ==
  /\ AllIdle
  /\ lastRec.op = "recordFromEntries"
  /\ lastRec.txs = <<>>
  /\ lastRec.tenantId = 1
  /\ RowCount(store[1]) > 0
  /\ Truthy(settings[1])

\* What C9 concludes for a deleteInventoryTransactions call that follows a recording
\* of its document: it returns exactly the recorded transactions, and no row of the
\* document is stored afterwards.
ReturnsTheRecorded(p) ==
  /\ ret'[p] = [status |-> "ok", oldInventoryTransactions |-> RowsOf(lastRec.txs)]
  /\ DocumentRows(store'[frame[p].tenantId], frame[p]) = NoRows

\* C9 as stated: recording transactions of one document with override = false and
\* then deleting by that document returns exactly the recorded transactions and
\* leaves no stored transaction of the document.
C9_Original ==
  [][\A p \in Procs :
       (DelReturns(p) /\ FollowsRecording(p) /\ ~lastRec.override)
       => ReturnsTheRecorded(p)]_vars

\* C9, amended: the same, provided the document had no stored transaction when the
\* recording started (override = false keeps the rows it finds, and the delete
\* returns those too).
C9_DeleteReturnsRecorded ==
  [][\A p \in Procs :
       (DelReturns(p) /\ FollowsRecording(p) /\ ~lastRec.override /\ lastRec.pre = NoRows)
       => ReturnsTheRecorded(p)]_vars

\* Bill 42 was recorded with override = false into a store without rows of it, and
\* the delete that followed returned its two transactions; another document's row
\* stays stored.
C9_Witness ==
  /\ AllIdle
  /\ lastRec.op = "deleted"
  /\ ~lastRec.override
  /\ lastRec.pre = NoRows
  /\ Len(lastRec.txs) = 2
  /\ \E p \in Procs :
       ret[p] = [status |-> "ok", oldInventoryTransactions |-> RowsOf(lastRec.txs)]
  /\ RowCount(store[lastRec.tenantId]) > 0

\* C10: deleteInventoryTransactions for a (transactionId, transactionType) without
\* stored transactions returns an empty set, raises no error and leaves every stored
\* transaction unchanged.
C10_DeleteOfNothing ==
  [][\A p \in Procs :
       (DelReturns(p) /\ DocumentRows(store[frame[p].tenantId], frame[p]) = NoRows) =>
       /\ ret'[p] = [status |-> "ok", oldInventoryTransactions |-> NoRows]
       /\ store' = store]_vars

\* Bill 42 of tenant 1 has just been deleted with nothing stored for it, while a
\* transaction of sale invoice 42 is stored.
C10_Witness ==
  /\ AllIdle
  /\ emitted = <<DeletedEvent(1, NoRows, 42, "Bill")>>
  /\ \E p \in Procs : ret[p] = [status |-> "ok", oldInventoryTransactions |-> NoRows]
  /\ RowCount(DocumentRows(store[1], [transactionId |-> 42, transactionType |-> "SaleInvoice"])) > 0

\* The events of one name among those dispatched by a step.
EventsNamed(events, name) == {k \in DOMAIN events : events[k].name = name}

\* The step ends the await Promise.all of process p's recordInventoryTransactions
\* with success.
BatchResolves(p) == pc[p] = "rec_tasks" /\ pc'[p] \in {"incr_set", "idle"}

\* C11: recordInventoryTransactions dispatches exactly one
\* onInventoryTransactionsCreated per call, only after every insert of the batch
\* has completed, and the event carries every transaction of the batch; when an
\* insert fails no onInventoryTransactionsCreated is dispatched.  The step that
\* ends the await with success dispatches the one event after all operations are
\* done; no other step of the call, and no step of a call with a failed insert,
\* dispatches one.
C11_OneCreatedAfterAllInserts ==
  [][\A p \in Procs :
       LET f == frame[p]
           created == EventsNamed(emitted', "onInventoryTransactionsCreated")
       IN /\ BatchResolves(p) =>
               /\ \A k \in DOMAIN f.txs : f.task[k] = "done"
               /\ emitted' = <<CreatedEvent(f.tenantId, f.txs)>>
          /\ (pc[p] \in TaskLabels /\ pc'[p] # pc[p] /\ ~BatchResolves(p)) => created = {}
          /\ (pc[p] \in TaskLabels /\ \E k \in DOMAIN f.task : f.task[k] = "failed")
               => created = {}
          /\ (created # {} /\ pc'[p] # pc[p]) => BatchResolves(p)]_vars

\* A direct call with a batch of two transactions has returned and its one event
\* lists both.
C11_Witness ==
  /\ AllIdle
  /\ lastRec.op = "recordMany"
  /\ Len(lastRec.txs) = 2
  /\ emitted = <<CreatedEvent(lastRec.tenantId, lastRec.txs)>>

\* C12: computeItemCost on an item that does not exist or whose type is not
\* 'inventory' fails with the error naming the missing inventory type, invokes no
\* cost method computer and writes no lot cost row.
C12_NotInventoryFails ==
  [][\A p \in Procs :
       (/\ CostReturns(p)
        /\ LET item == FindItemById(frame[p].tenantId, frame[p].itemId)
           IN item = Undefined \/ item.type # "inventory")
       => /\ ret'[p] = NotInventoryError
          /\ invoked' = <<>>
          /\ lotCosts' = lotCosts]_vars

\* C13: computeItemCost selects the computer from the item's configured cost
\* method: an inventory item configured FIFO or LIFO is computed by the lot
\* tracker, one configured AVG by the average cost computer.
C13_StrategyByCostMethod ==
  [][\A p \in Procs :
       LET item == FindItemById(frame[p].tenantId, frame[p].itemId)
       IN (CostReturns(p) /\ item # Undefined /\ item.type = "inventory") =>
          /\ Len(invoked') = 1
          /\ item.costMethod \in {"FIFO", "LIFO"} =>
               invoked'[1].computer = "InventoryCostLotTracker"
          /\ item.costMethod = "AVG" => invoked'[1].computer = "InventoryAverageCost"]_vars

\* C14: for any list of item entries, transformItemEntriesToInventory returns a
\* list of the same length in the same order, whose k-th element has the
\* direction, date and lotNumber of the call, the itemId, quantity and rate of the
\* k-th entry, its referenceType and referenceId as transactionType and
\* transactionId, and its id as entryId.
C14_TransformCopiesEntries ==
  [][\A p \in Procs :
       TransformReturns(p) =>
       LET f == frame[p]
           out == ret'[p].value
       IN /\ DOMAIN out = 1 .. Len(f.itemEntries)
          /\ \A k \in 1 .. Len(f.itemEntries) :
               LET entry == f.itemEntries[k]
               IN out[k] = [direction |-> f.direction, date |-> f.date,
                            lotNumber |-> f.lotNumber, itemId |-> entry.itemId,
                            quantity |-> entry.quantity, rate |-> entry.rate,
                            transactionType |-> entry.referenceType,
                            transactionId |-> entry.referenceId,
                            entryId |-> entry.id]]_vars

\* A call with MaxEntries entries of different documents has returned its list.
C14_Witness ==
  \E p \in Procs :
    /\ pc[p] = "idle"
    /\ ret[p].status = "ok"
    /\ "value" \in DOMAIN ret[p]
    /\ Len(ret[p].value) = MaxEntries
    /\ ret[p].value[1].entryId = 4
    /\ ret[p].value[1].transactionId = 43
    /\ ret[p].value[2].transactionType = "SaleInvoice"
    /\ ret[p].value[2].direction = "OUT"

\* The rows of table rows that belong to other documents than call f's.
OtherDocumentRows(rows, f) ==
  [x \in {y \in DOMAIN rows :
            ~(y.transactionId = f.transactionId /\ y.transactionType = f.transactionType)}
     |-> rows[x]]

\* Every row held by table rows is held at least as often by table after.
NothingDeleted(rows, after) ==
  \A x \in DOMAIN rows : x \in DOMAIN after /\ after[x] >= rows[x]

\* C15: a recordInventoryTransaction call that runs alone with deleteOld first
\* deletes every stored transaction of the new record's document and then inserts
\* the record, so that at its return the store holds exactly the new transaction
\* for that document; no step of the call changes the transactions of another
\* document or of another tenant, and without deleteOld no step deletes anything.
C15_RecordOneReplacesDocument ==
  [][\A p \in SeqProcs :
       (pc[p] = "rec_one") =>
         LET f == frame[p]
             t == f.tenantId
         IN /\ OtherDocumentRows(store'[t], f) = OtherDocumentRows(store[t], f)
            /\ \A u \in Tenants \ {t} : store'[u] = store[u]
            /\ ~f.override => NothingDeleted(store[t], store'[t])
            /\ (f.override /\ f.task[1] = "insert") => DocumentRows(store[t], f) = NoRows
            /\ (f.override /\ RecOneReturns(p)) =>
                 /\ DocumentRows(store'[t], f) = RowsOf(f.txs)
                 /\ RowCount(DocumentRows(store'[t], f)) = 1
                 /\ ret'[p].value = f.txs[1]]_vars

\* C15 witness: a call with deleteOld has deleted the stored transactions of its
\* document, awaits its insert, and a transaction of another document is stored.
C15_Witness ==
  \E p \in SeqProcs :
    /\ pc[p] = "rec_one"
    /\ frame[p].override
    /\ frame[p].task[1] = "insert"
    /\ frame[p].old[1] # NoRows
    /\ emitted # <<>>
    /\ DocumentRows(store[frame[p].tenantId], frame[p]) = NoRows
    /\ OtherDocumentRows(store[frame[p].tenantId], frame[p]) # NoRows

\* C16: a failed record leaves a used lot number: once a
\* recordInventoryTransactionsFromItemsEntries call has obtained lot number L and
\* thrown while recording its transactions, no later call for the same tenant
\* stamps L on its transactions.
C16_FailedLotNotReused ==
  [][\A p \in SeqProcs :
       RecFromStamps(p) => frame[p].lotNumber \notin failed[frame[p].tenantId]]_vars

\* C17: recordInventoryTransactions with override on a batch of at least two
\* transactions of one document, whose recordInventoryTransaction calls
\* interleave: when the call completes successfully the store holds for the
\* document exactly the transactions of the batch, which are the transactions the
\* onInventoryTransactionsCreated event lists.
C17_OverrideBatchStored ==
  [][\A p \in SeqProcs :
       LET f == frame[p]
       IN (BatchResolves(p) /\ f.override /\ Len(f.txs) >= 2) =>
            /\ DocumentRows(store'[f.tenantId], f) = RowsOf(f.txs)
            /\ \A k \in EventsNamed(emitted', "onInventoryTransactionsCreated") :
                 RowsOf(emitted'[k].inventoryTransactions)
                   = DocumentRows(store'[f.tenantId], f)]_vars

\* C18: two recordInventoryTransactionsFromItemsEntries calls for one tenant that
\* overlap in time, for different documents with at least one inventory entry
\* each, stamp different lot numbers: when a call stamps its transactions while
\* another call for the tenant and another document has stamped its own and not
\* returned, the two lot numbers differ.
C18_OverlappingLotsDiffer ==
  [][\A p, q \in Procs :
       (/\ p # q
        /\ RecFromStamps(p)
        /\ RecFromStamped(q)
        /\ frame[q].tenantId = frame[p].tenantId
        /\ <<frame[q].transactionType, frame[q].transactionId>>
             # <<frame[p].transactionType, frame[p].transactionId>>)
       => frame[p].lotNumber # frame[q].lotNumber]_vars

\* The step is the one in which process p's scheduleComputeItemCost call finds a
\* pending job that covers its request.
FindsCoveringJob(p) ==
  /\ pc[p] = "sched_query"
  /\ DependsJobsLength(jobs, frame[p].tenantId, frame[p].itemId, frame[p].startingDate) > 0

\* C19: scheduleComputeItemCost dispatches onComputeItemCostJobScheduled exactly
\* when it enqueues a new job, after the enqueue and with the payload of the job:
\* a step dispatches events only as the one event of a call that has enqueued the
\* job {tenantId, itemId, startingDate} and returns, every call that enqueued
\* dispatches it before it returns, and a call that finds a covering pending job
\* enqueues nothing and dispatches nothing.
C19_ScheduledEventFollowsEnqueue ==
  [][/\ emitted' # <<>> =>
          \E p \in Procs :
            /\ frame[p].op = "schedule"
            /\ frame[p].enqueued
            /\ SchedReturns(p)
            /\ Len(emitted') = 1
            /\ emitted'[1].name = "onComputeItemCostJobScheduled"
            /\ emitted'[1].tenantId = frame[p].tenantId
            /\ emitted'[1].itemId = frame[p].itemId
            /\ emitted'[1].startingDate = frame[p].startingDate
     /\ \A p \in Procs :
          /\ (pc[p] = "sched_enqueue" /\ pc'[p] # pc[p]) =>
               /\ jobs' = [jobs EXCEPT ![PendingJob(frame[p].tenantId, frame[p].itemId,
                                                    frame[p].startingDate)] = @ + 1]
               /\ frame'[p].enqueued
               /\ ~SchedReturns(p)
          /\ SchedReturns(p) => (frame[p].enqueued <=> emitted' # <<>>)
          /\ (FindsCoveringJob(p) /\ pc'[p] # pc[p]) =>
               /\ SchedReturns(p)
               /\ ~frame[p].enqueued
               /\ emitted' = <<>>
               /\ jobs' = jobs]_vars

\* C19 witness: the event of a call that enqueued has just been dispatched and the
\* job with its payload is pending.
C19_Witness ==
  /\ emitted # <<>>
  /\ emitted[1].name = "onComputeItemCostJobScheduled"
  /\ jobs[PendingJob(emitted[1].tenantId, emitted[1].itemId, emitted[1].startingDate)] > 0

\* The arguments of the scheduleComputeItemCost call of process p that takes the step.
StepArgs(p) == IF pc[p] = "idle" THEN frame'[p] ELSE frame[p]

\* The step is taken by the scheduleComputeItemCost call of process p.
SchedSteps(p) ==
  /\ pc'[p] # pc[p]
  /\ pc[p] \in SchedLabels \/ pc'[p] \in SchedLabels

\* C20: no step of scheduleComputeItemCost(t, i, D) cancels, adds or changes a
\* pending job whose tenantId differs from t or whose itemId differs from i, and
\* none cancels a pending job of (t, i) whose startingDate is at most D.
C20_OtherJobsUntouched ==
  [][\A p \in Procs :
       SchedSteps(p) =>
         LET f == StepArgs(p)
         IN \A j \in JobKinds :
              /\ (j.tenantId # f.tenantId \/ j.itemId # f.itemId) => jobs'[j] = jobs[j]
              /\ (j.tenantId = f.tenantId /\ j.itemId = f.itemId
                    /\ j.startingDate <= f.startingDate) => jobs'[j] >= jobs[j]]_vars

\* C20 witness: a call has run its cancel while a job of another item of the tenant
\* with a later starting date and a job of its own item with a starting date at or
\* before the requested one are pending.
C20_Witness ==
  \E p \in Procs :
    /\ pc[p] = "sched_query"
    /\ \E j \in JobKinds :
         /\ j.tenantId = frame[p].tenantId /\ j.itemId # frame[p].itemId
         /\ j.startingDate > frame[p].startingDate
         /\ jobs[j] > 0
    /\ \E j \in JobKinds :
         /\ j.tenantId = frame[p].tenantId /\ j.itemId = frame[p].itemId
         /\ j.startingDate <= frame[p].startingDate
         /\ jobs[j] > 0

====
